---- MODULE Spec2Model ----
(***************************************************************************)
(* Model of the realtime device-ingestion pipeline of the monitoring page: *)
(* the serial adapter (LineBreakTransformer, openPort().close), the NDJSON *)
(* parser (parseLine) and the MonitoringPage controller with its readLoop. *)
(***************************************************************************)
EXTENDS Integers, Sequences, FiniteSets, TLC

VARIABLES
    \* ---- LineBreakTransformer (serialAdapter.ts) ----
    input,        \* the whole text the decoder will deliver, chosen at start
    fed,          \* how many characters of input were passed to transform()
    crlfCut,      \* some chunk ended between the \r and the \n of a terminator
    carry,        \* LineBreakTransformer.carry
    queue,        \* what controller.enqueue() received, in order
    streamEnded,  \* flush() has run
    \* ---- parseLine (monitoring.tsx) ----
    line,         \* the text line handed to parseLine, as a sequence of tokens
    result,       \* what parseLine(line) returned
    aliasResult,  \* what parseLine returned for the same line respelled
    \* ---- MonitoringPage: React state and refs (monitoring.tsx 131-152) ----
    patientId,          \* 0: "" (none selected)
    session,            \* [id, ended]; id 0: null
    selectedPortIdx,    \* -1: none
    io,                 \* the SerialIO in state, by link number; 0: null
    isMonitoring,
    startedFromDevice,
    loading,
    err,                \* "null" or which message was set
    realtime,           \* the live buffer
    lastSent,           \* lastSentRef.current
    closeLoop,          \* closeLoopRef.current
    \* ---- the environment and what is in flight ----
    now,                \* Date.now()
    created,            \* sessions the backend has created so far
    links,              \* per SerialIO: opened, reader cancelled
    loops,              \* per SerialIO: the readLoop started on it
    closers,            \* the calls of SerialIO.close
    tasks,              \* the handlers suspended at an await
    backlog,            \* per SerialIO: the lines enqueued and not yet read
    \* ---- history, read by the properties only ----
    sent,               \* the sessionService.addData calls, in order
    arrivals,           \* the Readings appended since the buffer was last emptied
    begunBy,            \* who began the current monitoring period
    prior,              \* the mark when the start in flight was invoked
    taken,              \* the line a loop read last from its reader's queue
    closeInvoked        \* sessionService.close was called on the session in state

fvars == <<input, fed, crlfCut, carry, queue, streamEnded>>
pvars == <<line, result, aliasResult>>
uivars == <<patientId, session, selectedPortIdx, io, isMonitoring, startedFromDevice,
            loading, err, realtime>>
refvars == <<lastSent, closeLoop>>
envvars == <<now, created, links, loops, closers, tasks>>
histvars == <<sent, arrivals, begunBy>>
qvars == <<backlog, taken>>
mvars == <<uivars, refvars, envvars, histvars, qvars, prior, closeInvoked>>
vars == <<fvars, pvars, mvars>>

(***************************************************************************)
(* Bounds of the model.                                                    *)
(***************************************************************************)
MaxText == 6
MaxChunk == 3

MaxLinks == 2         \* SerialIO objects openPort returns in one run
MaxSessions == 2      \* sessions the backend creates in one run
MaxCloseCalls == 2    \* calls of SerialIO.close by direct callers
MaxDisconnects == 1   \* invocations of handleDisconnect in flight at once
MaxConnects == 1      \* invocations of handleConnect in flight at once, on the page
MaxPorts == 4         \* authorised serial ports
MaxArrivals == 1      \* Readings accepted between two resets
MaxTicks == 1         \* clock steps of the controller specification
MaxIngest == 3        \* Readings accepted in the ingestion specification
MaxElapsed == 2000    \* milliseconds that pass in the ingestion specification
MaxRing == 203        \* Readings accepted in the ring-buffer specification
MaxBacklog == 2       \* lines waiting in the reader's queue

\* Program constants.
ThrottleMs == 1000
BufferCap == 200

\* Date.now() when the page is opened, and the receipt times parseLine sees.
StartTime == 2 * ThrottleMs
ParseTimes == {StartTime, StartTime + 1}

(***************************************************************************)
(* Generic helpers.                                                        *)
(***************************************************************************)
Min(a, b) == IF a <= b THEN a ELSE b
Max(a, b) == IF a >= b THEN a ELSE b
Last(s) == s[Len(s)]

RECURSIVE SeqsUpTo(_, _)
SeqsUpTo(S, n) ==
    IF n = 0 THEN {<<>>}
    ELSE LET shorter == SeqsUpTo(S, n - 1)
         IN shorter \cup {Append(s, x) : s \in {t \in shorter : Len(t) = n - 1}, x \in S}

(***************************************************************************)
(* parseLine.  A line is a sequence of tokens: whitespace, an opening or a *)
(* closing brace, a "key": value member of a JSON object, or other text.   *)
(* Field values are integers (the model has no fractions).                 *)
(***************************************************************************)
SP == [k |-> "sp"]
LB == [k |-> "lb"]
RB == [k |-> "rb"]
JUNK == [k |-> "junk"]
Member(key, val) == [k |-> "member", key |-> key, val |-> val]

\* JSON values as JSON.parse yields them; Undefined is a missing property.
Undefined == [t |-> "undefined"]
Null == [t |-> "null"]
Num(n) == [t |-> "num", n |-> n]
Huge == [t |-> "huge"]               \* a numeric literal such as 1e999
Str(chars) == [t |-> "str", s |-> chars]
Bool(b) == [t |-> "bool", b |-> b]
Arr(items) == [t |-> "arr", a |-> items]
Obj == [t |-> "obj"]

\* JavaScript numbers: a finite value, NaN or Infinity.
Fin(n) == [k |-> "fin", n |-> n]
NaN == [k |-> "nan"]
Inf == [k |-> "inf"]

Digits == <<"0", "1", "2", "3", "4", "5", "6", "7", "8", "9">>
IsDigit(c) == \E i \in 1..10 : Digits[i] = c
DigitValue(c) == (CHOOSE i \in 1..10 : Digits[i] = c) - 1

\* The sequence without its leading and trailing elements of the set blanks.
TrimOf(s, blanks) ==
    LET at == {i \in 1..Len(s) : s[i] \notin blanks}
    IN IF at = {} THEN <<>>
       ELSE SubSeq(s, CHOOSE i \in at : \A j \in at : i <= j,
                      CHOOSE i \in at : \A j \in at : j <= i)

RECURSIVE DecimalValue(_)
DecimalValue(digits) ==
    IF Len(digits) = 0 THEN 0
    ELSE 10 * DecimalValue(SubSeq(digits, 1, Len(digits) - 1)) + DigitValue(digits[Len(digits)])

\* Number(string): surrounding whitespace ignored, "" is 0, an optionally
\* signed run of digits is its value, any other text is NaN.
StringToNumber(chars) ==
    LET t == TrimOf(chars, {" "})
        neg == Len(t) > 0 /\ t[1] = "-"
        digits == IF neg THEN Tail(t) ELSE t
    IN IF Len(t) = 0 THEN Fin(0)
       ELSE IF Len(digits) > 0 /\ \A i \in 1..Len(digits) : IsDigit(digits[i])
            THEN Fin(IF neg THEN 0 - DecimalValue(digits) ELSE DecimalValue(digits))
       ELSE NaN

RECURSIVE NatToString(_)
NatToString(n) ==
    IF n < 10 THEN <<Digits[n + 1]>>
    ELSE Append(NatToString(n \div 10), Digits[(n % 10) + 1])

\* Array.prototype.toString of an array of numbers, strings and nulls.
ElementToString(v) ==
    CASE v.t = "num" -> IF v.n < 0 THEN <<"-">> \o NatToString(0 - v.n) ELSE NatToString(v.n)
      [] v.t = "str" -> v.s
      [] OTHER -> <<>>
RECURSIVE ArrayToString(_)
ArrayToString(items) ==
    IF Len(items) = 0 THEN <<>>
    ELSE IF Len(items) = 1 THEN ElementToString(items[1])
    ELSE ElementToString(items[1]) \o <<",">> \o ArrayToString(Tail(items))

\* Number(value)
ToNumber(v) ==
    CASE v.t = "undefined" -> NaN
      [] v.t = "null" -> Fin(0)
      [] v.t = "bool" -> IF v.b THEN Fin(1) ELSE Fin(0)
      [] v.t = "num" -> Fin(v.n)
      [] v.t = "huge" -> Inf
      [] v.t = "str" -> StringToNumber(v.s)
      [] v.t = "arr" -> StringToNumber(ArrayToString(v.a))
      [] v.t = "obj" -> NaN

\* Number.isFinite
IsFinite(x) == x.k = "fin"

\* a ?? b
Nullish(a, b) == IF a.t \in {"undefined", "null"} THEN b ELSE a

\* String.prototype.trim on a token line
Trim(l) == TrimOf(l, {SP})
StartsWith(s, tok) == Len(s) > 0 /\ s[1] = tok
EndsWith(s, tok) == Len(s) > 0 /\ s[Len(s)] = tok

\* JSON.parse of a text that starts with "{" and ends with "}": an object
\* (its members, whitespace dropped) or a SyntaxError.
SyntaxError == [threw |-> TRUE]
JSONParse(s) ==
    LET inner == SubSeq(s, 2, Len(s) - 1)
    IN IF Len(s) >= 2 /\ \A i \in 1..Len(inner) : inner[i].k \in {"member", "sp"}
       THEN [threw |-> FALSE, members |-> SelectSeq(inner, LAMBDA tok : tok.k = "member")]
       ELSE SyntaxError

\* obj.key: the value of the last member written under the key, or undefined.
Get(obj, key) ==
    LET at == {i \in 1..Len(obj.members) : obj.members[i].key = key}
    IN IF at = {} THEN Undefined
       ELSE obj.members[CHOOSE i \in at : \A j \in at : j <= i].val

Fields == {"pulse", "oxygenSaturation", "temperatureC", "systolic", "diastolic"}
FirstSpelling == [f \in Fields |->
    CASE f = "pulse" -> "pulse" [] f = "oxygenSaturation" -> "spo2"
      [] f = "temperatureC" -> "temp" [] f = "systolic" -> "sys" [] f = "diastolic" -> "dia"]
SecondSpelling == [f \in Fields |->
    CASE f = "pulse" -> "bpm" [] f = "oxygenSaturation" -> "oxygenSaturation"
      [] f = "temperatureC" -> "temperatureC" [] f = "systolic" -> "systolic"
      [] f = "diastolic" -> "diastolic"]

\* obj.pulse ?? obj.bpm, and so on for the five fields
ResolveFirstOnly(obj, f) == Get(obj, FirstSpelling[f])

\* The same with the two spellings tried in the other order.
ResolveSecondFirst(obj, f) == Nullish(Get(obj, SecondSpelling[f]), Get(obj, FirstSpelling[f]))

Resolve(obj, f) == Nullish(Get(obj, FirstSpelling[f]), Get(obj, SecondSpelling[f]))

\* The results of parseLine: null or a RealtimeRow; Threw stands for an
\* exception leaving the function.
NullResult == [kind |-> "null"]
Threw == [kind |-> "threw"]
Row(r) == [kind |-> "reading", r |-> r]

\* The body of the try block (lines 86-101): its value, or an exception.
TryBody(s, ts) ==
    LET obj == JSONParse(s)
        n == [f \in Fields |-> ToNumber(Resolve(obj, f))]
    IN IF obj.threw THEN Threw
       ELSE IF ~(\A f \in Fields : IsFinite(n[f])) THEN NullResult
       ELSE Row([timestamp |-> ts, pulse |-> n["pulse"].n,
                 oxygenSaturation |-> n["oxygenSaturation"].n,
                 temperatureC |-> n["temperatureC"].n,
                 systolic |-> n["systolic"].n, diastolic |-> n["diastolic"].n])

parseLineNoCatch(l, ts) ==
    LET s == Trim(l)
    IN IF Len(s) = 0 \/ ~StartsWith(s, LB) \/ ~EndsWith(s, RB) THEN NullResult
       ELSE TryBody(s, ts)

\* parseLine(line), with ts the value of new Date() at the call
parseLine(l, ts) ==
    LET s == Trim(l)
    IN IF Len(s) = 0 \/ ~StartsWith(s, LB) \/ ~EndsWith(s, RB) THEN NullResult
       ELSE LET body == TryBody(s, ts)
            IN IF body = Threw THEN NullResult ELSE body

(***************************************************************************)
(* Characters: two letters, carriage return and line feed.                 *)
(***************************************************************************)
CR == "\\r"
LF == "\\n"
Chars == {"a", "b", CR, LF}

\* String.prototype.split(/\r?\n/): scan left to right; at each index the
\* regex matches "\r\n" (two characters) or "\n" (one); a lone "\r" is text.
RECURSIVE SplitFrom(_, _, _, _)
SplitFrom(s, i, cur, acc) ==
    IF i > Len(s) THEN Append(acc, cur)
    ELSE IF s[i] = CR /\ i < Len(s) /\ s[i + 1] = LF
         THEN SplitFrom(s, i + 2, <<>>, Append(acc, cur))
    ELSE IF s[i] = LF THEN SplitFrom(s, i + 1, <<>>, Append(acc, cur))
    ELSE SplitFrom(s, i + 1, Append(cur, s[i]), acc)

SplitLines(s) == SplitFrom(s, 1, <<>>, <<>>)

\* lines.pop(): the array without its last element.
Pop(lines) == SubSeq(lines, 1, Len(lines) - 1)

NonEmpty(seg) == Len(seg) > 0

\* The lines one call of transform() enqueues, given the carry and the chunk.
Enqueued(c, chunk) == SelectSeq(Pop(SplitLines(c \o chunk)), NonEmpty)

EnqueuedNoCarry(c, chunk) == SelectSeq(Pop(SplitLines(chunk)), NonEmpty)

\* LineBreakTransformer.transform(chunk, controller)
TransformNoCarry(chunk) ==
    /\ carry' = Last(SplitLines(chunk))
    /\ queue' = queue \o EnqueuedNoCarry(carry, chunk)

Transform(chunk) ==
    /\ carry' = Last(SplitLines(carry \o chunk))
    /\ queue' = queue \o Enqueued(carry, chunk)

\* The decoder delivers the next chunk of the input to the transformer.
FeedChunk ==
    /\ ~streamEnded
    /\ \E n \in 1..MaxChunk :
          /\ fed + n <= Len(input)
          /\ Transform(SubSeq(input, fed + 1, fed + n))
          /\ fed' = fed + n
          /\ crlfCut' = (crlfCut \/ (/\ fed + n < Len(input)
                                     /\ input[fed + n] = CR
                                     /\ input[fed + n + 1] = LF))
    /\ UNCHANGED <<input, streamEnded>>
    /\ UNCHANGED <<pvars, mvars>>

\* LineBreakTransformer.flush(): the carry is dropped, nothing is enqueued.
FlushEmitsCarry ==
    /\ ~streamEnded
    /\ fed = Len(input)
    /\ queue' = IF Len(carry) > 0 THEN Append(queue, carry) ELSE queue
    /\ carry' = <<>>
    /\ streamEnded' = TRUE
    /\ UNCHANGED <<input, fed, crlfCut>>
    /\ UNCHANGED <<pvars, mvars>>

Flush ==
    /\ ~streamEnded
    /\ fed = Len(input)
    /\ carry' = <<>>
    /\ streamEnded' = TRUE
    /\ UNCHANGED <<input, fed, crlfCut, queue>>
    /\ UNCHANGED <<pvars, mvars>>

FramingStart(texts) ==
    /\ input \in texts
    /\ fed = 0
    /\ crlfCut = FALSE
    /\ carry = <<>>
    /\ queue = <<>>
    /\ streamEnded = FALSE

(***************************************************************************)
(* Reference reading of a text as K terminated lines and a fragment: the   *)
(* j-th line ends at the j-th line feed; a carriage return right before    *)
(* that line feed belongs to the terminator.                               *)
(***************************************************************************)
LFPositions(t) == {i \in 1..Len(t) : t[i] = LF}
NthLF(t, j) == CHOOSE p \in LFPositions(t) : Cardinality({q \in LFPositions(t) : q <= p}) = j
LineCount(t) == Cardinality(LFPositions(t))
LineContent(t, j) ==
    LET first == IF j = 1 THEN 1 ELSE NthLF(t, j - 1) + 1
        raw == SubSeq(t, first, NthLF(t, j) - 1)
    IN IF Len(raw) > 0 /\ raw[Len(raw)] = CR THEN SubSeq(raw, 1, Len(raw) - 1) ELSE raw
CompleteLines(t) == [j \in 1..LineCount(t) |-> LineContent(t, j)]
Fragment(t) ==
    LET from == IF LineCount(t) = 0 THEN 1 ELSE NthLF(t, LineCount(t)) + 1
    IN SubSeq(t, from, Len(t))
Fed == SubSeq(input, 1, fed)

\* C1 (as stated): once the input has ended, the transformer has enqueued
\* exactly the K complete lines of the text, in order, without terminators.
C1_EveryCompleteLineEnqueued == streamEnded => queue = CompleteLines(input)

\* C1 (amended): at every moment the queue holds exactly the non-empty ones
\* of the complete lines of the text fed so far, in input order and without
\* their terminators; empty lines are dropped, and the trailing fragment is
\* enqueued neither by transform nor by flush.
C1_NonEmptyLinesEnqueued ==
    /\ queue = SelectSeq(CompleteLines(Fed), NonEmpty)
    /\ ~streamEnded => carry = Fragment(Fed)
    /\ streamEnded => carry = <<>> /\ queue = SelectSeq(CompleteLines(input), NonEmpty)

\* C1 witness: an ended input with an empty line, a kept line and a fragment.
C1_Witness ==
    /\ streamEnded
    /\ Len(queue) >= 1
    /\ LineCount(input) > Len(queue)
    /\ Len(Fragment(input)) > 0

\* C2: the lines emitted and the carry kept after any chunking of a text are
\* those of the same text passed to transform in one single chunk.
C2_ChunkingIndependent ==
    /\ queue = Enqueued(<<>>, Fed)
    /\ ~streamEnded => carry = Last(SplitLines(Fed))

\* C2 witness: a text of two lines fed whole in several chunks, one of them
\* ending between the \r and the \n of a terminator.
C2_Witness ==
    /\ fed = Len(input)
    /\ crlfCut
    /\ Len(queue) >= 2
    /\ queue[1] # queue[2]


(***************************************************************************)
(* The lines parseLine is applied to, and the steps that apply it.         *)
(***************************************************************************)
FieldOrder == <<"pulse", "oxygenSaturation", "temperatureC", "systolic", "diastolic">>
Absent == [t |-> "absent"]

\* The members one field contributes: its first spelling, then its second.
FieldMembers(f, pair) ==
    (IF pair[1] = Absent THEN <<>> ELSE <<Member(FirstSpelling[f], pair[1])>>)
    \o (IF pair[2] = Absent THEN <<>> ELSE <<Member(SecondSpelling[f], pair[2])>>)
RECURSIVE MembersOf(_, _)
MembersOf(pairs, i) ==
    IF i > Len(FieldOrder) THEN <<>>
    ELSE FieldMembers(FieldOrder[i], pairs[FieldOrder[i]]) \o MembersOf(pairs, i + 1)
ObjectLine(pairs) == <<LB>> \o MembersOf(pairs, 1) \o <<RB>>

\* Five numbers, each in or out of its clinical range.
PlainReadings ==
    {[pulse |-> a, oxygenSaturation |-> b, temperatureC |-> c, systolic |-> d, diastolic |-> e] :
        a \in {70, 300}, b \in {97, 40}, c \in {36, 50}, d \in {120, 20}, e \in {80, 10}}
\* Each field once, under its first (1) or its second (2) spelling.
Spelled(values, sp) ==
    ObjectLine([f \in Fields |-> IF sp[f] = 1 THEN <<Num(values[f]), Absent>>
                                 ELSE <<Absent, Num(values[f])>>])
PlainObjects == {Spelled(v, sp) : v \in PlainReadings, sp \in [Fields -> {1, 2}]}

\* One field carrying any pair of values, the other four a plain number.
BaseReading == [pulse |-> 70, oxygenSaturation |-> 97, temperatureC |-> 36,
                systolic |-> 120, diastolic |-> 80]
OddValues == {Num(0), Num(71), Num(0 - 5), Huge, Str(<<>>), Str(<<" ">>), Str(<<"7", "2">>),
              Str(<<"a">>), Bool(TRUE), Bool(FALSE), Null, Arr(<<>>), Arr(<<Num(7)>>),
              Arr(<<Num(1), Num(2)>>), Obj, Absent}
OddObjects ==
    {ObjectLine([[f \in Fields |-> IF sp = 1 THEN <<Num(BaseReading[f]), Absent>>
                                   ELSE <<Absent, Num(BaseReading[f])>>]
                 EXCEPT ![g] = <<v1, v2>>]) :
        g \in Fields, v1 \in OddValues, v2 \in OddValues, sp \in {1, 2}}

\* Lines that are no JSON object, bare and with whitespace around them.
OtherBodies == {<<>>, <<JUNK>>, <<LB>>, <<RB>>, <<LB, RB>>, <<LB, JUNK, RB>>, <<JUNK, LB, RB>>,
                <<LB, RB, JUNK>>, <<LB, RB, LB, RB>>, <<RB, LB>>, <<LB, SP, RB>>,
                <<LB, Member("pulse", Num(70)), RB>>,
                <<LB, Member("pulse", Num(70)), JUNK, RB>>,
                Spelled(BaseReading, [f \in Fields |-> 1]),
                <<LB, Member("pulse", Bool(TRUE)), Member("pulse", Num(72))>>
                    \o Tail(Spelled(BaseReading, [f \in Fields |-> 2]))}
OtherLines == {l \o b \o r : l \in {<<>>, <<SP>>}, b \in OtherBodies, r \in {<<>>, <<SP>>, <<SP, SP>>}}

ParseLines == PlainObjects \cup OddObjects \cup OtherLines

Pending == [kind |-> "pending"]

\* The same line as the firmware would write it with the second spellings.
OnlyFirstSpellings(l) ==
    \A i \in 1..Len(l) : l[i].k = "member" => \E f \in Fields : l[i].key = FirstSpelling[f]
Respelled(l) ==
    [i \in 1..Len(l) |->
        IF l[i].k = "member"
        THEN Member(SecondSpelling[CHOOSE f \in Fields : FirstSpelling[f] = l[i].key], l[i].val)
        ELSE l[i]]

ParserIdle ==
    /\ line = <<>>
    /\ result = Pending
    /\ aliasResult = Pending

FramingIdle == FramingStart({<<>>})

\* One call parseLine(line).
ParseStep ==
    /\ result = Pending
    /\ \E ts \in ParseTimes : result' = parseLine(line, ts)
    /\ UNCHANGED <<line, aliasResult>>
    /\ UNCHANGED <<fvars, mvars>>

\* One call of parseLine on the respelled line.
ParseRespelledStep ==
    /\ aliasResult = Pending
    /\ OnlyFirstSpellings(line)
    /\ \E ts \in ParseTimes : aliasResult' = parseLine(Respelled(line), ts)
    /\ UNCHANGED <<line, result>>
    /\ UNCHANGED <<fvars, mvars>>

(***************************************************************************)
(* Claims about parseLine.                                                 *)
(***************************************************************************)
\* What the claims call a JSON object line, and the values a field carries.
Stripped(l) == SelectSeq(l, LAMBDA tok : tok # SP)
IsObjectLine(l) ==
    LET s == Stripped(l)
    IN /\ Len(s) >= 2
       /\ s[1] = LB
       /\ s[Len(s)] = RB
       /\ \A i \in 2..(Len(s) - 1) : s[i].k = "member"
Carried(l, f) ==
    {l[i].val : i \in {j \in 1..Len(l) : /\ l[j].k = "member"
                                         /\ l[j].key \in {FirstSpelling[f], SecondSpelling[f]}}}
DenotesNumber(v) ==
    \/ v.t = "num"
    \/ v.t = "str" /\ Len(v.s) > 0 /\ \A i \in 1..Len(v.s) : IsDigit(v.s[i])
\* The field is absent under both spellings, or no value it carries denotes a number.
FieldInvalid(l, f) == \A v \in Carried(l, f) : ~DenotesNumber(v)

\* C6 (as stated): an object line with at least one field absent under both
\* spellings or carrying a value that denotes no number is rejected whole.
C6_InvalidFieldRejects ==
    (result # Pending /\ IsObjectLine(line) /\ \E f \in Fields : FieldInvalid(line, f))
        => result = NullResult

\* C7: a line carrying five numbers under the first spellings and the same
\* line under the second spellings both parse to Readings with the same five
\* field values (those of the line); only the timestamps may differ.
FiveNumbersFirstSpelled(l) ==
    /\ IsObjectLine(l)
    /\ OnlyFirstSpellings(l)
    /\ \A f \in Fields : Cardinality(Carried(l, f)) = 1 /\ \A v \in Carried(l, f) : v.t = "num"
ValuesOf(r) == [f \in Fields |-> r[f]]
C7_AliasResolution ==
    (result # Pending /\ aliasResult # Pending /\ FiveNumbersFirstSpelled(line))
        => /\ result.kind = "reading"
           /\ aliasResult.kind = "reading"
           /\ ValuesOf(result.r) = ValuesOf(aliasResult.r)
           /\ \A f \in Fields : Carried(line, f) = {Num(result.r[f])}

\* C7 witness: both spellings of one line parsed, at different times.
C7_Witness ==
    /\ FiveNumbersFirstSpelled(line)
    /\ result.kind = "reading"
    /\ aliasResult.kind = "reading"
    /\ result.r.timestamp # aliasResult.r.timestamp
    /\ result.r.pulse = 300

\* C8: parseLine returns a Reading or null for every line and never throws;
\* a line that, trimmed, does not start with "{" and end with "}" is rejected.
Braced(l) ==
    LET at == {i \in 1..Len(l) : l[i] # SP}
    IN /\ at # {}
       /\ l[CHOOSE i \in at : \A j \in at : i <= j] = LB
       /\ l[CHOOSE i \in at : \A j \in at : j <= i] = RB
C8_ParserTotal ==
    /\ result.kind \in {"pending", "null", "reading"}
    /\ (result # Pending /\ ~Braced(line)) => result = NullResult

\* C8 witness: a brace-wrapped line that is not JSON was parsed and rejected.
C8_Witness ==
    /\ Braced(line)
    /\ ~IsObjectLine(line)
    /\ result = NullResult


(***************************************************************************)
(* SerialIO.close (serialAdapter.ts 87-113): five release steps, each in   *)
(* its own try/catch.  The first is synchronous, the others are awaited.   *)
(***************************************************************************)
CloseSteps == <<"releaseLock", "cancel", "portClose", "readableClosed", "writableClosed">>
IdleCloser == [pc |-> 0, link |-> 0, by |-> "none", tried |-> <<>>, failed |-> {},
               outcome |-> "none", again |-> FALSE]

\* The call io.close() up to its first await: releaseLock (ok or it throws
\* and is caught), then reader.cancel() is issued.
CloseBegin(c, k, by, ok) ==
    /\ closers[c].pc = 0
    /\ closers' = [closers EXCEPT ![c] =
            [pc |-> 2, link |-> k, by |-> by,
             tried |-> <<CloseSteps[1], CloseSteps[2]>>,
             failed |-> IF ok \/ by # "caller" THEN {} ELSE {CloseSteps[1]},
             outcome |-> "pending",
             again |-> \E d \in DOMAIN closers : closers[d].link = k /\ closers[d].outcome = "resolved"]]
    /\ links' = [links EXCEPT ![k].cancelled = TRUE]

\* The same steps without the try/catch around them: the first failure
\* rejects the call and the remaining steps are never attempted.
CloserAfterNoCatch(cl, ok) ==
    IF ok
    THEN [cl EXCEPT !.pc = IF cl.pc = Len(CloseSteps) THEN 0 ELSE cl.pc + 1,
                    !.tried = IF cl.pc = Len(CloseSteps) THEN cl.tried
                              ELSE Append(cl.tried, CloseSteps[cl.pc + 1]),
                    !.outcome = IF cl.pc = Len(CloseSteps) THEN "resolved" ELSE "pending"]
    ELSE [cl EXCEPT !.pc = 0, !.failed = cl.failed \cup {CloseSteps[cl.pc]},
                    !.outcome = "rejected"]

\* The same call with the two pipe completions awaited in the other order.
CloserAfterPipesSwapped(cl, ok) ==
    LET order == <<"releaseLock", "cancel", "portClose", "writableClosed", "readableClosed">>
    IN [cl EXCEPT !.pc = IF cl.pc = Len(order) THEN 0 ELSE cl.pc + 1,
                  !.tried = IF cl.pc = Len(order) THEN cl.tried
                            ELSE Append(cl.tried, order[cl.pc + 1]),
                  !.failed = IF ok \/ cl.by # "caller" THEN cl.failed
                             ELSE cl.failed \cup {order[cl.pc]},
                  !.outcome = IF cl.pc = Len(order) THEN "resolved" ELSE "pending"]

\* A closer whose awaited step has settled: the failure is caught and
\* logged, and the next step is started, or the call returns.  Which steps
\* failed is history, kept for the calls of direct callers.
CloserAfter(cl, ok) ==
    [cl EXCEPT !.pc = IF cl.pc = Len(CloseSteps) THEN 0 ELSE cl.pc + 1,
               !.tried = IF cl.pc = Len(CloseSteps) THEN cl.tried
                         ELSE Append(cl.tried, CloseSteps[cl.pc + 1]),
               !.failed = IF ok \/ cl.by # "caller" THEN cl.failed
                          ELSE cl.failed \cup {CloseSteps[cl.pc]},
               !.outcome = IF cl.pc = Len(CloseSteps) THEN "resolved" ELSE "pending"]

\* The awaited step of close call c settles, ok or with a failure, and the
\* call goes on; a call made by handleDisconnect returns in DisconnectFinish.
CloseStepSettle(c) ==
    /\ closers[c].pc >= 2
    /\ closers[c].pc < Len(CloseSteps) \/ closers[c].by = "caller"
    /\ \E ok \in BOOLEAN :
          closers' = [closers EXCEPT ![c] = CloserAfter(closers[c], ok)]
    /\ UNCHANGED <<uivars, refvars, now, created, links, loops, tasks, histvars>>
    /\ UNCHANGED <<fvars, pvars, qvars, prior, closeInvoked>>

\* Some holder of the SerialIO calls io.close().
CloseCall(c) ==
    /\ closers[c].outcome = "none"
    /\ \E k \in 1..MaxLinks, ok \in BOOLEAN :
          /\ links[k].opened
          /\ CloseBegin(c, k, "caller", ok)
    /\ UNCHANGED <<uivars, refvars, now, created, loops, tasks, histvars>>
    /\ UNCHANGED <<fvars, pvars, qvars, prior, closeInvoked>>

(***************************************************************************)
(* readLoop (monitoring.tsx 275-327).  A loop keeps the session and the    *)
(* isMonitoring of the render in which handleConnect was invoked.          *)
(***************************************************************************)
NoSession == [id |-> 0, ended |-> FALSE]
NoPrior == FALSE
NoLinkState == [opened |-> FALSE, cancelled |-> FALSE, port |-> 0 - 1, released |-> FALSE]
NoLoop == [pc |-> "none", sid |-> 0, mon |-> FALSE]
NoLine == [link |-> 0, line |-> <<>>]

\* function clamp(n, min, max)
clampNoUpper(n, lo, hi) == Max(lo, n)

clamp(n, lo, hi) == Max(lo, Min(hi, n))

\* The payload of sessionService.addData (lines 306-312).
Payload(r) ==
    [pulse |-> clamp(r.pulse, 20, 240),
     oxygenSaturation |-> clamp(r.oxygenSaturation, 50, 100),
     temperatureC |-> clamp(r.temperatureC, 30, 45),
     systolic |-> clamp(r.systolic, 50, 260),
     diastolic |-> clamp(r.diastolic, 30, 200)]

\* up.slice(-200)
SliceLastNoEvict(up, n) == up

SliceLast(up, n) == SubSeq(up, Max(1, Len(up) - n + 1), Len(up))

\* setRealtime((prev) => [...prev, reading].slice(-200))
Appended(prev, reading) == SliceLast(Append(prev, reading), BufferCap)

\* while (!closeLoopRef.current): where the loop goes after an iteration.
LoopTop == IF closeLoop THEN "ended" ELSE "reading"

\* The loop lp back at the top of the while.
Continue(lp) == [lp EXCEPT !.pc = LoopTop]

\* The throttle test of line 303, with the loop's captured session.
ThrottleOpenAlways(sid) == sid # 0

ThrottleOpen(sid) == sid # 0 /\ now - lastSent >= ThrottleMs

\* The autostart test of line 292, on the loop's captured values.
AutostartTest(lp) == lp.sid # 0 /\ ~lp.mon

\* The same with the autostart of lines 292-295 placed before the tests of
\* lines 280 and 290: every line read begins monitoring.
DiscardAfterAutostart(k) ==
    /\ loops' = [loops EXCEPT ![k] = Continue(loops[k])]
    /\ isMonitoring' = (AutostartTest(loops[k]) \/ isMonitoring)
    /\ startedFromDevice' = (AutostartTest(loops[k]) \/ startedFromDevice)
    /\ UNCHANGED <<patientId, session, selectedPortIdx, io, loading, err, realtime>>
    /\ UNCHANGED <<refvars, histvars>>

\* if (!value) continue; if (!reading) continue; (lines 280 and 290): the
\* line is dropped and the loop is back at the top of the while.
Discard(k) ==
    /\ loops' = [loops EXCEPT ![k] = Continue(loops[k])]
    /\ UNCHANGED <<uivars, refvars, histvars>>

\* reader.read() resolves with a line: one iteration, up to the await of
\* addData or back to the top of the loop.
LoopReadValue(k, l) ==
    /\ loops[k].pc = "reading"
    /\ ~links[k].cancelled
    /\ LET reading == parseLine(l, now)
           lp == loops[k]
           auto == AutostartTest(lp)
           forward == ThrottleOpen(lp.sid)
       IN IF Len(l) = 0 \/ reading = NullResult
          THEN Discard(k)
          ELSE /\ isMonitoring' = (auto \/ isMonitoring)
               /\ startedFromDevice' = (auto \/ startedFromDevice)
               /\ realtime' = Appended(realtime, reading.r)
               /\ lastSent' = IF forward THEN now ELSE lastSent
               /\ sent' = IF forward
                          THEN Append(sent, [at |-> now, sid |-> lp.sid,
                                             payload |-> Payload(reading.r),
                                             text |-> l, buffered |-> Last(realtime'),
                                             link |-> k, seq |-> Len(arrivals) + 1,
                                             outcome |-> "pending"])
                          ELSE sent
               /\ loops' = [loops EXCEPT ![k] = IF forward THEN [lp EXCEPT !.pc = "appending"]
                                                  ELSE Continue(lp)]
               /\ arrivals' = Append(arrivals, reading.r)
               /\ begunBy' = IF auto /\ ~isMonitoring THEN "device" ELSE begunBy
               /\ UNCHANGED <<patientId, session, selectedPortIdx, io, loading, err, closeLoop>>
    /\ UNCHANGED <<now, created, links, closers, tasks>>
    /\ UNCHANGED <<fvars, pvars, prior, closeInvoked>>

\* reader.read() resolves with done (the reader was cancelled): break.
LoopReadDone(k) ==
    /\ loops[k].pc = "reading"
    /\ links[k].cancelled
    /\ loops' = [loops EXCEPT ![k].pc = "ended"]
    /\ UNCHANGED <<uivars, refvars, now, created, links, closers, tasks, histvars>>
    /\ UNCHANGED <<fvars, pvars, qvars, prior, closeInvoked>>

\* The catch of lines 317-325: what the error state becomes.
CatchAlwaysReports == "read"

Catch == IF closeLoop THEN err ELSE "read"

\* reader.read() rejects: the catch of lines 317-325.
LoopReadError(k) ==
    /\ loops[k].pc = "reading"
    /\ loops' = [loops EXCEPT ![k].pc = "ended"]
    /\ err' = Catch
    /\ UNCHANGED <<patientId, session, selectedPortIdx, io, isMonitoring, startedFromDevice,
                   loading, realtime>>
    /\ UNCHANGED <<refvars, now, created, links, closers, tasks, histvars>>
    /\ UNCHANGED <<fvars, pvars, qvars, prior, closeInvoked>>

\* The addData call that loop k awaits.
Outstanding(k) == CHOOSE i \in DOMAIN sent : sent[i].link = k /\ sent[i].outcome = "pending"

\* The loop and the error state after the await of addData, without the
\* inner try/catch of lines 305-315: the rejection reaches the outer catch.
AfterAppendNoCatch(lp, ok) ==
    IF ok THEN [loop |-> Continue(lp), err |-> err]
    ELSE [loop |-> [lp EXCEPT !.pc = "ended"], err |-> Catch]

\* The loop and the error state after the await of addData (lines 305-315).
AfterAppend(lp, ok) == [loop |-> Continue(lp), err |-> err]

\* sessionService.addData settles, resolved or rejected (tolerated).
LoopAppendSettle(k) ==
    /\ loops[k].pc = "appending"
    /\ \E ok \in BOOLEAN :
          /\ loops' = [loops EXCEPT ![k] = AfterAppend(loops[k], ok).loop]
          /\ err' = AfterAppend(loops[k], ok).err
          /\ sent' = [sent EXCEPT ![Outstanding(k)].outcome = IF ok THEN "ok" ELSE "failed"]
    /\ UNCHANGED <<patientId, session, selectedPortIdx, io, isMonitoring, startedFromDevice,
                   loading, realtime>>
    /\ UNCHANGED <<refvars, now, created, links, closers, tasks, arrivals, begunBy>>
    /\ UNCHANGED <<fvars, pvars, qvars, prior, closeInvoked>>

\* controller.enqueue(line) in the transformer: line l waits in the queue of
\* the reader of link k until the loop reads it.
Deliver(k, l) ==
    /\ links[k].opened
    /\ ~links[k].cancelled
    /\ backlog' = [backlog EXCEPT ![k] = Append(@, l)]
    /\ UNCHANGED <<uivars, refvars, envvars, histvars, prior, taken, closeInvoked>>
    /\ UNCHANGED <<fvars, pvars>>

\* reader.read() resolves with the line that waited longest.
LoopTake(k) ==
    /\ backlog[k] # <<>>
    /\ LoopReadValue(k, Head(backlog[k]))
    /\ backlog' = [backlog EXCEPT ![k] = Tail(@)]
    /\ taken' = [link |-> k, line |-> Head(backlog[k])]

\* Time passes.
Tick(step) ==
    /\ now' = now + step
    /\ UNCHANGED <<uivars, refvars, created, links, loops, closers, tasks, histvars>>
    /\ UNCHANGED <<fvars, pvars, qvars, prior, closeInvoked>>


(***************************************************************************)
(* The handlers of MonitoringPage (monitoring.tsx 179-271).  A click runs  *)
(* the handler of the current render up to its first await; the Settle     *)
(* action of an await runs it on to the next.  The guards of the clicks    *)
(* are the disabled= conditions of the buttons.  One invocation of each    *)
(* of create, connect, start and stop is in flight at a time.              *)
(***************************************************************************)
NoErr == "null"
IdleConnect == [pc |-> "idle", sid |-> 0, mon |-> FALSE, port |-> 0 - 1, busy |-> FALSE]
IdleTasks == [create |-> "idle", connect |-> [k \in 1..MaxLinks |-> IdleConnect],
              start |-> "idle", stop |-> "idle"]

isConnected == io # 0
canCreateSession == patientId # 0 /\ session.id = 0
canPickDevice == session.id # 0 /\ ~isMonitoring
canConnect == session.id # 0 /\ selectedPortIdx >= 0 /\ ~isConnected
canStart == session.id # 0 /\ isConnected /\ ~isMonitoring
canStop == session.id # 0 /\ isMonitoring
canReset == ~isMonitoring /\ (session.id # 0 \/ patientId # 0)

\* The patient select (disabled while a session exists or is being created).
SelectPatient ==
    /\ session.id = 0 /\ ~loading
    /\ patientId = 0
    /\ patientId' = 1
    /\ UNCHANGED <<session, selectedPortIdx, io, isMonitoring, startedFromDevice, loading, err,
                   realtime>>
    /\ UNCHANGED <<refvars, envvars, histvars>>
    /\ UNCHANGED <<fvars, pvars, qvars, prior, closeInvoked>>

\* handleCreateSession up to await sessionService.create
CreateClick ==
    /\ canCreateSession /\ ~loading
    /\ tasks.create = "idle"
    /\ created < MaxSessions
    /\ loading' = TRUE
    /\ err' = NoErr
    /\ tasks' = [tasks EXCEPT !.create = "awaiting"]
    /\ UNCHANGED <<patientId, session, selectedPortIdx, io, isMonitoring, startedFromDevice,
                   realtime>>
    /\ UNCHANGED <<refvars, now, created, links, loops, closers, histvars>>
    /\ UNCHANGED <<fvars, pvars, qvars, prior, closeInvoked>>

\* The try/catch of lines 192-199 with the finally left out.
CreateOutcomeNoFinally(ok) ==
    [session |-> IF ok THEN [id |-> created + 1, ended |-> FALSE] ELSE session,
     err |-> IF ok THEN err ELSE "create",
     loading |-> ~ok]

\* The try/catch/finally of lines 192-199: setSession(s), or setErr(message);
\* then setLoading(false).
CreateOutcome(ok) ==
    [session |-> IF ok THEN [id |-> created + 1, ended |-> FALSE] ELSE session,
     err |-> IF ok THEN err ELSE "create",
     loading |-> FALSE]

\* sessionService.create settles: setSession, or setErr; finally setLoading(false)
CreateSettle ==
    /\ tasks.create = "awaiting"
    /\ \E ok \in BOOLEAN :
          /\ session' = CreateOutcome(ok).session
          /\ created' = IF ok THEN created + 1 ELSE created
          /\ err' = CreateOutcome(ok).err
          /\ loading' = CreateOutcome(ok).loading
    /\ tasks' = [tasks EXCEPT !.create = "idle"]
    /\ closeInvoked' = (closeInvoked /\ session' = session)
    /\ UNCHANGED <<patientId, selectedPortIdx, io, isMonitoring, startedFromDevice, realtime>>
    /\ UNCHANGED <<refvars, now, links, loops, closers, histvars>>
    /\ UNCHANGED <<fvars, pvars, qvars, prior>>

\* The authorised ports (ports[i]) and what each offers once it is open:
\* port 2 has no writable side, port 3 has no readable side.
Ports == 0..(MaxPorts - 1)
PortSides(p) == CASE p = 2 -> "noWritable" [] p = 3 -> "noReadable" [] OTHER -> "both"

\* The port select: another port is chosen.
PickPort(p) ==
    /\ canPickDevice
    /\ selectedPortIdx # p
    /\ selectedPortIdx' = p
    /\ UNCHANGED <<patientId, session, io, isMonitoring, startedFromDevice, loading, err,
                   realtime>>
    /\ UNCHANGED <<refvars, envvars, histvars>>
    /\ UNCHANGED <<fvars, pvars, qvars, prior, closeInvoked>>

\* Port p is being opened or is open: port.open() on it rejects at once.
PortInUse(p) ==
    \/ \E j \in 1..MaxLinks : links[j].port = p /\ ~links[j].released
    \/ \E j \in 1..MaxLinks : /\ tasks.connect[j].pc = "opening"
                              /\ tasks.connect[j].port = p
                              /\ ~tasks.connect[j].busy

\* The SerialIO objects not yet made or being made, and the next of them.
FreeLinks == {k \in 1..MaxLinks : tasks.connect[k].pc = "idle" /\ links[k].port = 0 - 1}
FreeLink == CHOOSE k \in FreeLinks : \A j \in FreeLinks : k <= j
Opening == {k \in 1..MaxLinks : tasks.connect[k].pc = "opening"}

\* handleConnect up to await openPort, which has called port.open(); at
\* most n invocations are in flight.
ConnectClick(n) ==
    /\ canConnect
    /\ Cardinality(Opening) < n
    /\ FreeLinks # {}
    /\ err' = NoErr
    /\ tasks' = [tasks EXCEPT !.connect[FreeLink] =
                    [pc |-> "opening", sid |-> session.id, mon |-> isMonitoring,
                     port |-> selectedPortIdx, busy |-> PortInUse(selectedPortIdx)]]
    /\ UNCHANGED <<patientId, session, selectedPortIdx, io, isMonitoring, startedFromDevice,
                   loading, realtime>>
    /\ UNCHANGED <<refvars, now, created, links, loops, closers, histvars>>
    /\ UNCHANGED <<fvars, pvars, qvars, prior, closeInvoked>>

\* What openPort does once port.open() has settled (serialAdapter.ts 63-85
\* and 115): it throws when port.open() rejected or port.readable is
\* missing; pipeTo always returns a promise, also for a missing
\* port.writable, so line 75 never throws and the SerialIO is returned.
openPort(p, opened) ==
    CASE ~opened -> "openFailed"
      [] opened /\ PortSides(p) = "noReadable" -> "notReadable"
      [] OTHER -> "io"

\* openPort of connect k settles: setIo, closeLoopRef.current = false,
\* readLoop runs to its first read; or setErr.
ConnectSettle(k) ==
    /\ tasks.connect[k].pc = "opening"
    /\ \E ok \in (IF tasks.connect[k].busy THEN {FALSE} ELSE BOOLEAN) :
          LET t == tasks.connect[k]
              got == openPort(t.port, ok)
          IN CASE got = "io" ->
                  /\ io' = k
                  /\ closeLoop' = FALSE
                  /\ links' = [links EXCEPT ![k] = [opened |-> TRUE, cancelled |-> FALSE,
                                                    port |-> t.port, released |-> FALSE]]
                  /\ loops' = [loops EXCEPT ![k] = [pc |-> "reading", sid |-> t.sid,
                                                    mon |-> t.mon]]
                  /\ UNCHANGED err
               [] got = "notReadable" ->
                  /\ err' = "notReadable"
                  /\ links' = [links EXCEPT ![k].port = t.port]
                  /\ UNCHANGED <<io, closeLoop, loops>>
               [] OTHER ->
                  /\ err' = "connect"
                  /\ UNCHANGED <<io, closeLoop, links, loops>>
    /\ tasks' = [tasks EXCEPT !.connect[k] = IdleConnect]
    /\ UNCHANGED <<patientId, session, selectedPortIdx, isMonitoring, startedFromDevice, loading,
                   realtime>>
    /\ UNCHANGED <<lastSent, now, created, closers, histvars>>
    /\ UNCHANGED <<fvars, pvars, qvars, prior, closeInvoked>>

\* The close call that a new invocation of handleDisconnect uses.
Closers == 1..Max(MaxCloseCalls, MaxDisconnects)
FreeCloser == CHOOSE c \in 1..MaxDisconnects :
                  /\ closers[c] = IdleCloser
                  /\ \A d \in 1..(c - 1) : closers[d] # IdleCloser

\* handleDisconnect without its line 232: the flag stays what it is.
CancelNotRequested == closeLoop

\* closeLoopRef.current = true (line 232), before io.close() is called.
CancelRequested == TRUE

\* handleDisconnect up to the first await inside io.close()
DisconnectClick ==
    /\ isConnected
    /\ \E c \in 1..MaxDisconnects : closers[c] = IdleCloser
    /\ closeLoop' = CancelRequested
    /\ \E ok \in BOOLEAN : CloseBegin(FreeCloser, io, "disconnect", ok)
    /\ UNCHANGED <<uivars, lastSent, now, created, loops, tasks, histvars>>
    /\ UNCHANGED <<fvars, pvars, qvars, prior, closeInvoked>>

\* The tail of handleReset (lines 265-270)
ResetTail ==
    /\ realtime' = <<>>
    /\ startedFromDevice' = FALSE
    /\ session' = NoSession
    /\ patientId' = 0
    /\ err' = NoErr
    /\ selectedPortIdx' = 0 - 1
    /\ arrivals' = <<>>
    /\ closeInvoked' = FALSE

\* handleReset: with no link it runs to its end; with a link it runs
\* handleDisconnect up to the first await inside io.close()
ResetClick ==
    /\ canReset
    /\ IF isConnected
       THEN /\ \E c \in 1..MaxDisconnects : closers[c] = IdleCloser
            /\ closeLoop' = CancelRequested
            /\ \E ok \in BOOLEAN : CloseBegin(FreeCloser, io, "reset", ok)
            /\ UNCHANGED <<uivars, arrivals, closeInvoked>>
       ELSE /\ ResetTail
            /\ UNCHANGED <<io, isMonitoring, loading, closeLoop, links, closers>>
    /\ UNCHANGED <<lastSent, now, created, loops, tasks, sent, begunBy>>
    /\ UNCHANGED <<fvars, pvars, qvars, prior>>

\* The last step of the io.close() of handleDisconnect settles: the call
\* returns, setIo(null), and a handleReset that awaited it runs its tail.
DisconnectFinish(c) ==
    /\ closers[c].pc = Len(CloseSteps)
    /\ closers[c].by \in {"disconnect", "reset"}
    /\ closers' = [closers EXCEPT ![c] = IdleCloser]
    /\ links' = [links EXCEPT ![closers[c].link].released = TRUE]
    /\ io' = 0
    /\ IF closers[c].by = "reset"
       THEN ResetTail
       ELSE UNCHANGED <<realtime, startedFromDevice, session, patientId, err, selectedPortIdx,
                        arrivals, closeInvoked>>
    /\ UNCHANGED <<isMonitoring, loading>>
    /\ UNCHANGED <<refvars, now, created, loops, tasks, sent, begunBy>>
    /\ UNCHANGED <<fvars, pvars, qvars, prior>>

\* handleStart up to await writeLine(io.writer, "1")
StartClick ==
    /\ canStart
    /\ tasks.start = "idle"
    /\ err' = NoErr
    /\ startedFromDevice' = FALSE
    /\ tasks' = [tasks EXCEPT !.start = "writing"]
    /\ prior' = startedFromDevice
    /\ UNCHANGED <<patientId, session, selectedPortIdx, io, isMonitoring, loading, realtime>>
    /\ UNCHANGED <<refvars, now, created, links, loops, closers, histvars>>
    /\ UNCHANGED <<fvars, pvars, qvars, closeInvoked>>

\* The write of "1" settles: setIsMonitoring(true), or the handler rejects.
StartSettle ==
    /\ tasks.start = "writing"
    /\ \E ok \in BOOLEAN :
          /\ isMonitoring' = (ok \/ isMonitoring)
          /\ begunBy' = IF ok /\ ~isMonitoring THEN "operator" ELSE begunBy
    /\ tasks' = [tasks EXCEPT !.start = "idle"]
    /\ prior' = NoPrior
    /\ UNCHANGED <<patientId, session, selectedPortIdx, io, startedFromDevice, loading, err,
                   realtime>>
    /\ UNCHANGED <<refvars, now, created, links, loops, closers, sent, arrivals>>
    /\ UNCHANGED <<fvars, pvars, qvars, closeInvoked>>

\* handleStop up to await writeLine(io.writer, "0")
StopClick ==
    /\ canStop
    /\ io # 0
    /\ tasks.stop = "idle"
    /\ err' = NoErr
    /\ tasks' = [tasks EXCEPT !.stop = "writing"]
    /\ UNCHANGED <<patientId, session, selectedPortIdx, io, isMonitoring, startedFromDevice,
                   loading, realtime>>
    /\ UNCHANGED <<refvars, now, created, links, loops, closers, histvars>>
    /\ UNCHANGED <<fvars, pvars, qvars, prior, closeInvoked>>

\* The write of "0" settles: setIsMonitoring(false) and on to
\* sessionService.close, or the handler rejects.
StopWriteSettle ==
    /\ tasks.stop = "writing"
    /\ \E ok \in BOOLEAN :
          /\ isMonitoring' = (isMonitoring /\ ~ok)
          /\ begunBy' = IF ok THEN "none" ELSE begunBy
          /\ tasks' = [tasks EXCEPT !.stop = IF ok THEN "closing" ELSE "idle"]
          /\ closeInvoked' = (closeInvoked \/ (ok /\ session.id # 0))
    /\ UNCHANGED <<patientId, session, selectedPortIdx, io, startedFromDevice, loading, err,
                   realtime>>
    /\ UNCHANGED <<refvars, now, created, links, loops, closers, sent, arrivals>>
    /\ UNCHANGED <<fvars, pvars, qvars, prior>>

\* sessionService.close settles: endedAt is set on the session in state, or
\* the failure is tolerated.
StopCloseSettle ==
    /\ tasks.stop = "closing"
    /\ \E ok \in BOOLEAN :
          session' = IF ok /\ session.id # 0 THEN [session EXCEPT !.ended = TRUE] ELSE session
    /\ tasks' = [tasks EXCEPT !.stop = "idle"]
    /\ UNCHANGED <<patientId, selectedPortIdx, io, isMonitoring, startedFromDevice, loading, err,
                   realtime>>
    /\ UNCHANGED <<refvars, now, created, links, loops, closers, histvars>>
    /\ UNCHANGED <<fvars, pvars, qvars, prior, closeInvoked>>

(***************************************************************************)
(* Initial states.                                                         *)
(***************************************************************************)

\* The page as mounted.
PageMounted ==
    /\ patientId = 0
    /\ session = NoSession
    /\ selectedPortIdx = 0 - 1
    /\ io = 0
    /\ isMonitoring = FALSE
    /\ startedFromDevice = FALSE
    /\ loading = FALSE
    /\ err = NoErr
    /\ realtime = <<>>
    /\ lastSent = 0
    /\ closeLoop = FALSE
    /\ now = StartTime
    /\ created = 0
    /\ links = [k \in 1..MaxLinks |-> NoLinkState]
    /\ loops = [k \in 1..MaxLinks |-> NoLoop]
    /\ closers = [c \in Closers |-> IdleCloser]
    /\ tasks = IdleTasks
    /\ sent = <<>>
    /\ arrivals = <<>>
    /\ begunBy = "none"
    /\ backlog = [k \in 1..MaxLinks |-> <<>>]
    /\ prior = NoPrior
    /\ taken = NoLine
    /\ closeInvoked = FALSE

\* The page after SelectPatient, CreateClick and CreateSettle: a session,
\* no port chosen, no link.
PageWithSession ==
    /\ patientId = 1
    /\ session = [id |-> 1, ended |-> FALSE]
    /\ selectedPortIdx = 0 - 1
    /\ io = 0
    /\ isMonitoring = FALSE
    /\ startedFromDevice = FALSE
    /\ loading = FALSE
    /\ err = NoErr
    /\ realtime = <<>>
    /\ lastSent = 0
    /\ closeLoop = FALSE
    /\ now = StartTime
    /\ created = 1
    /\ links = [k \in 1..MaxLinks |-> NoLinkState]
    /\ loops = [k \in 1..MaxLinks |-> NoLoop]
    /\ closers = [c \in Closers |-> IdleCloser]
    /\ tasks = IdleTasks
    /\ sent = <<>>
    /\ arrivals = <<>>
    /\ begunBy = "none"
    /\ backlog = [k \in 1..MaxLinks |-> <<>>]
    /\ prior = NoPrior
    /\ taken = NoLine
    /\ closeInvoked = FALSE

\* The page after SelectPatient, CreateClick, CreateSettle, PickPort,
\* ConnectClick and ConnectSettle: a session, an open link, its loop reading.
PageConnected ==
    /\ patientId = 1
    /\ session = [id |-> 1, ended |-> FALSE]
    /\ selectedPortIdx = 0
    /\ io = 1
    /\ isMonitoring = FALSE
    /\ startedFromDevice = FALSE
    /\ loading = FALSE
    /\ err = NoErr
    /\ realtime = <<>>
    /\ lastSent = 0
    /\ closeLoop = FALSE
    /\ now = StartTime
    /\ created = 1
    /\ links = [k \in 1..MaxLinks |->
                   IF k = 1 THEN [opened |-> TRUE, cancelled |-> FALSE, port |-> 0,
                                  released |-> FALSE]
                   ELSE NoLinkState]
    /\ loops = [k \in 1..MaxLinks |->
                   IF k = 1 THEN [pc |-> "reading", sid |-> 1, mon |-> FALSE]
                   ELSE NoLoop]
    /\ closers = [c \in Closers |-> IdleCloser]
    /\ tasks = IdleTasks
    /\ sent = <<>>
    /\ arrivals = <<>>
    /\ begunBy = "none"
    /\ backlog = [k \in 1..MaxLinks |-> <<>>]
    /\ prior = NoPrior
    /\ taken = NoLine
    /\ closeInvoked = FALSE


(***************************************************************************)
(* Claims about SerialIO.close.                                            *)
(***************************************************************************)
\* C9: no call of SerialIO.close throws or rejects, be it the first call,
\* a second call on a link already closed, or a call in which release steps
\* fail; after a failing step every remaining step is still attempted, in
\* order, and the call resolves once all five were attempted.
C9_CloseBestEffort ==
    \A c \in DOMAIN closers :
        /\ closers[c].outcome # "rejected"
        /\ closers[c].outcome = "pending" => closers[c].tried = SubSeq(CloseSteps, 1, closers[c].pc)
        /\ closers[c].outcome = "resolved" => closers[c].tried = CloseSteps
        /\ closers[c].outcome \in {"none", "pending", "resolved"}

\* C9 witness: a second close of an already closed link whose first and
\* third steps failed has resolved with all five steps attempted.
C9_Witness ==
    \E c \in DOMAIN closers :
        /\ closers[c].again
        /\ closers[c].outcome = "resolved"
        /\ {"releaseLock", "portClose"} \subseteq closers[c].failed
        /\ closers[c].tried = CloseSteps

(***************************************************************************)
(* Claims about the ingestion loop.                                        *)
(***************************************************************************)
LastOf(q, n) == [i \in 1..Min(Len(q), n) |-> q[Len(q) - Min(Len(q), n) + i]]

\* C3: the live buffer holds exactly the last min(n, 200) of the n Readings
\* accepted since it was last emptied, oldest first, and never more than 200.
C3_RingBuffer ==
    /\ Len(realtime) <= 200
    /\ realtime = LastOf(arrivals, 200)

\* C3 witness: more than 200 Readings arrived and the oldest was evicted.
C3_Witness ==
    /\ Len(arrivals) > 200
    /\ Len(realtime) = 200
    /\ realtime[1] = arrivals[Len(arrivals) - 199]
    /\ realtime[1] # arrivals[1]
    /\ realtime[200] = arrivals[Len(arrivals)]

\* C4: any two addData calls are started at least 1000 ms apart, and the
\* last-sent timestamp is that of the latest call from the moment the call
\* is issued, also while its response is outstanding.
C4_Throttle ==
    /\ \A i, j \in DOMAIN sent : i < j => sent[j].at - sent[i].at >= 1000
    /\ sent # <<>> => lastSent = sent[Len(sent)].at

\* C4 witness: two calls exactly 1000 ms apart, with a Reading accepted in
\* between that was not forwarded, the second issued while the loop waits.
C4_Witness ==
    /\ Len(sent) = 2
    /\ sent[2].at - sent[1].at = 1000
    /\ Len(realtime) = 3
    /\ \E k \in DOMAIN loops : loops[k].pc = "appending"

\* C5: every forwarded payload lies in the clinical ranges and is the raw
\* value of its Reading clamped to them, while the buffer entry of the same
\* Reading keeps the raw values written on the line.
Range == [f \in Fields |->
    CASE f = "pulse" -> <<20, 240>> [] f = "oxygenSaturation" -> <<50, 100>>
      [] f = "temperatureC" -> <<30, 45>> [] f = "systolic" -> <<50, 260>>
      [] f = "diastolic" -> <<30, 200>>]
Clipped(v, f) == IF v < Range[f][1] THEN Range[f][1] ELSE IF v > Range[f][2] THEN Range[f][2] ELSE v
C5_Clamping ==
    \A i \in DOMAIN sent : \A f \in Fields :
        /\ sent[i].payload[f] >= Range[f][1]
        /\ sent[i].payload[f] <= Range[f][2]
        /\ sent[i].payload[f] = Clipped(sent[i].buffered[f], f)
        /\ Carried(sent[i].text, f) = {Num(sent[i].buffered[f])}

\* C5 witness: a pulse of 300 forwarded as 240 and still 300 in the buffer.
C5_Witness ==
    /\ sent # <<>>
    /\ sent[Len(sent)].payload.pulse = 240
    /\ sent[Len(sent)].buffered.pulse = 300
    /\ realtime[Len(realtime)].pulse = 300

\* C11: when an addData call fails the loop that awaited it does not end
\* because of it, the error state and the live buffer are left as they
\* were, and the loop is back at the top of the while, where it reads on
\* unless cancellation was requested meanwhile.
C11_AppendFailureTolerated ==
    [][\A i \in DOMAIN sent :
         (sent[i].outcome = "pending" /\ sent'[i].outcome = "failed") =>
             /\ err' = err
             /\ realtime' = realtime
             /\ loops'[sent[i].link].pc = (IF closeLoop THEN "ended" ELSE "reading")]_vars

\* C11 witness: an addData call failed, its Reading is still in the buffer,
\* no error is shown, and the loop has appended a later Reading and reads on.
C11_Witness ==
    \E i \in DOMAIN sent :
        /\ sent[i].outcome = "failed"
        /\ err = NoErr
        /\ Len(realtime) > sent[i].seq
        /\ realtime[sent[i].seq] = sent[i].buffered
        /\ loops[sent[i].link].pc = "reading"

\* C12: a loop that leaves its while at the read (the read failed, or it
\* ended) leaves the error state alone if the close-loop flag is set; if
\* the flag is not set and the reader was not cancelled, so that the read
\* can only have failed, the error state becomes the read error.  The loop
\* ends in its catch in both cases: readLoop never rejects.
C12_ReadFailure ==
    [][\A k \in DOMAIN loops :
         (loops[k].pc = "reading" /\ loops'[k].pc # "reading" /\ realtime' = realtime) =>
             /\ loops'[k].pc = "ended"
             /\ closeLoop => err' = err
             /\ (~closeLoop /\ ~links[k].cancelled) => err' = "read"]_vars

\* C12 witness: the read of a loop whose reader was not cancelled failed
\* with the flag not set: the loop has ended and the read error is shown.
C12_Witness ==
    \E k \in DOMAIN loops :
        /\ loops[k].pc = "ended"
        /\ ~links[k].cancelled
        /\ ~closeLoop
        /\ err = "read"

\* C13: when sessionService.create rejects, handleCreateSession sets the
\* create error, the session is and stays absent, the loading flag is back
\* to false, and the patient selection, the port selection, the link, the
\* monitoring flag, the started-from-device mark and the buffer are as before.
C13_CreateFailureAtomic ==
    [][(tasks.create = "awaiting" /\ tasks'.create = "idle" /\ created' = created) =>
          /\ err' = "create"
          /\ session = NoSession /\ session' = NoSession
          /\ loading /\ ~loading'
          /\ UNCHANGED <<patientId, selectedPortIdx, io, isMonitoring, startedFromDevice,
                         realtime, links, loops>>]_vars

\* C13 witness: a create has failed: the error is shown, a patient is
\* selected, there is no session and the page is not loading.
C13_Witness ==
    /\ err = "create"
    /\ tasks.create = "idle"
    /\ patientId # 0
    /\ session = NoSession
    /\ ~loading
    /\ created = 0

\* C14 (as stated): when the write of "1", the write of "0" or the
\* session close of handleStop fails, an error message is shown and the
\* monitoring flag, the started-from-device mark and the session are what
\* they were when the operation was invoked: monitoring inactive for a
\* start and active for a stop, and the mark of before the start.
C14_StartStopFailureAtomic ==
    [][/\ (tasks.start = "writing" /\ tasks'.start = "idle" /\ ~isMonitoring') =>
            /\ err' # NoErr
            /\ startedFromDevice' = prior
            /\ session' = session
       /\ (tasks.stop = "writing" /\ tasks'.stop = "idle") =>
            /\ err' # NoErr
            /\ UNCHANGED <<isMonitoring, startedFromDevice, session>>
       /\ (tasks.stop = "closing" /\ tasks'.stop = "idle" /\ session.id # 0 /\ ~session'.ended) =>
            /\ err' # NoErr
            /\ isMonitoring'
            /\ UNCHANGED <<startedFromDevice, session>>]_vars

\* C20 (as stated): the buffer is empty when a reset completes, and when
\* monitoring becomes active the buffer holds nothing but the Reading, if
\* any, that has just begun it.
C20_BufferLifecycle ==
    [][/\ (session # NoSession /\ session' = NoSession) => realtime' = <<>>
       /\ (~isMonitoring /\ isMonitoring') => Len(realtime') = Len(arrivals') - Len(arrivals)]_vars

\* C15 (as stated): a connect on a port that, once open, lacks its readable
\* or its writable side ends with an error shown, no link in state and no
\* ingestion loop started.
C15_TransportUnavailable ==
    [][\A k \in DOMAIN links :
         (/\ tasks.connect[k].pc = "opening"
          /\ tasks'.connect[k].pc = "idle"
          /\ PortSides(tasks.connect[k].port) # "both") =>
             /\ err' \in {"connect", "notReadable", "notWritable"}
             /\ io' = io
             /\ ~links'[k].opened
             /\ loops'[k].pc = "none"]_vars

\* A loop that can still append Readings: it has not left its while and
\* its reader has not been cancelled.
Live(k) == loops[k].pc \in {"reading", "appending"} /\ ~links[k].cancelled

\* C18 (as stated): at most one readLoop can still append Readings.
C18_SingleConsumer == Cardinality({k \in DOMAIN loops : Live(k)}) <= 1

C16_SingleSuspensionPoint == \A k \in DOMAIN loops : loops[k].pc # "appending"

\* C17 (as stated): when a Reading is forwarded, no line that parses to a
\* Reading is waiting behind it in the queue of the same reader.
C17_ThrottleRecency ==
    [][\A k \in DOMAIN loops :
         (Len(sent') > Len(sent) /\ sent'[Len(sent')].link = k) =>
             \A i \in DOMAIN backlog'[k] : parseLine(backlog'[k][i], now) = NullResult]_vars

\* C10 (as stated): while monitoring is active the started-from-device
\* mark is set only if the current monitoring period was begun by an
\* arriving Reading; after the operator's Start it stays cleared.
C10_MarkOnlyIfBegunByDevice ==
    (isMonitoring /\ startedFromDevice) => begunBy = "device"


\* C22: a call of SerialIO.close starts its steps in the order release
\* writer, cancel reader, close port, decode pipe, encode pipe: the call
\* begins with the first two (the release is synchronous), and each later
\* step is started when, and only when, the step before it has settled,
\* resolved or rejected.
C22_CloseOrdering ==
    [][\A c \in DOMAIN closers :
         (closers'[c].tried # closers[c].tried /\ closers'[c] # IdleCloser) =>
             \/ /\ closers[c].tried = <<>>
                /\ closers'[c].tried = <<"releaseLock", "cancel">>
             \/ /\ closers[c].pc = Len(closers[c].tried)
                /\ closers'[c].pc = closers[c].pc + 1
                /\ closers'[c].tried =
                       SubSeq(<<"releaseLock", "cancel", "portClose", "readableClosed",
                                "writableClosed">>, 1, closers[c].pc + 1)]_vars

\* C22 witness: the cancel and the close of the port both failed, and the
\* call now awaits the decode pipe, the encode pipe not yet started.
C22_Witness ==
    \E c \in DOMAIN closers :
        /\ closers[c].pc = 4
        /\ {"cancel", "portClose"} \subseteq closers[c].failed
        /\ closers[c].tried = <<"releaseLock", "cancel", "portClose", "readableClosed">>

\* C23: when a loop reads an empty value or a line that parseLine rejects,
\* the buffer, the monitoring flag, the started-from-device mark, the
\* last-sent timestamp and the error state stay as they are, no addData
\* call is made, and the loop is back at the top of the while, where it
\* reads the next line unless cancellation was requested.
C23_RejectedNoEffect ==
    [][\A k \in DOMAIN loops :
         (/\ loops[k].pc = "reading"
          /\ Len(backlog'[k]) < Len(backlog[k])
          /\ \/ Len(Head(backlog[k])) = 0
             \/ parseLine(Head(backlog[k]), now) = NullResult) =>
             /\ UNCHANGED <<realtime, isMonitoring, startedFromDevice, lastSent, err, sent>>
             /\ loops'[k].pc = (IF closeLoop THEN "ended" ELSE "reading")]_vars

\* C23 witness: with a session and monitoring inactive, the line last read
\* was a brace-wrapped line that is no JSON; nothing was buffered or sent,
\* monitoring is still inactive and the loop waits for the next line.
C23_Witness ==
    \E k \in DOMAIN loops :
        /\ taken = [link |-> k, line |-> <<LB, JUNK, RB>>]
        /\ loops[k].sid # 0
        /\ loops[k].pc = "reading"
        /\ realtime = <<>>
        /\ sent = <<>>
        /\ ~isMonitoring
        /\ ~startedFromDevice
        /\ err = NoErr

\* The value the line writes under a key (the last one, if the key is
\* written twice), or Absent.
Written(l, key) ==
    LET at == {i \in 1..Len(l) : l[i].k = "member" /\ l[i].key = key}
    IN IF at = {} THEN Absent ELSE l[CHOOSE i \in at : \A j \in at : j <= i].val

\* C24: in a Reading parsed from an object line, a field whose first
\* spelling carries a finite number has that number, whatever the second
\* spelling carries; the number under the second spelling is the field's
\* value when the first spelling is absent.
C24_AliasPriority ==
    (result # Pending /\ IsObjectLine(line) /\ result.kind = "reading") =>
        \A f \in Fields :
            LET first == Written(line, FirstSpelling[f])
                second == Written(line, SecondSpelling[f])
            IN /\ first.t = "num" => result.r[f] = first.n
               /\ (first = Absent /\ second.t = "num") => result.r[f] = second.n

\* C24 witness: a line with "sys":71 and "systolic":0 was parsed to a
\* Reading whose systolic is 71.
C24_Witness ==
    /\ IsObjectLine(line)
    /\ Written(line, "sys") = Num(71)
    /\ Written(line, "systolic") = Num(0)
    /\ result.kind = "reading"
    /\ result.r.systolic = 71

\* C21 (as stated): once the reader of a link is cancelled by a disconnect,
\* and every outstanding promise settles, the loop of the link ends and the
\* link leaves the state; and from the completion of the disconnect until
\* the next connect succeeds no Reading is appended to the buffer.
C21_CancellationLiveness ==
    /\ \A k \in 1..MaxLinks :
          links[k].cancelled ~> (loops[k].pc = "ended" /\ links[k].released /\ io # k)
    /\ [][(io = 0 /\ closeLoop) => Len(arrivals') <= Len(arrivals)]_vars


\* C25 (as stated): while no session exists (from the completion of a reset
\* until the next session is created) no readLoop can append Readings, the
\* buffer is empty and no addData call is issued.
C25_ResetQuiesces ==
    [][session' = NoSession =>
          /\ \A k \in DOMAIN loops :
                ~(loops'[k].pc \in {"reading", "appending"} /\ ~links'[k].cancelled)
          /\ realtime' = <<>>
          /\ session = NoSession => Len(sent') = Len(sent)]_vars

\* C26 (as stated): no addData call is issued for the session in state once
\* handleStop has closed it (sessionService.close resolved, endedAt set).
C26_NoForwardAfterClose ==
    [][(Len(sent') > Len(sent) /\ session.ended) => sent'[Len(sent')].sid # session.id]_vars

\* C27 (as stated): monitoring is never active for a session that
\* handleStop has ended (endedAt set).
C27_StopIsFinal == session.ended => ~isMonitoring

\* C28 (as stated): while monitoring is active the link is in state, and
\* the page is never in a state where Stop is enabled, handleStop would
\* return at its first test (no link) and Reset is disabled.
C28_MonitoringImpliesConnected ==
    /\ isMonitoring => isConnected
    /\ ~(canStop /\ ~isConnected /\ ~canReset)

\* C29 (as stated): when a link is in state, and neither a connect nor a
\* close of that link is in progress, the readLoop started on the link has
\* not left its while.
C29_ConnectedImpliesConsumer ==
    (/\ isConnected
     /\ Opening = {}
     /\ \A c \in DOMAIN closers : closers[c].link # io) =>
        loops[io].pc \in {"reading", "appending"}

\* C30 (as stated): when the controller discards the session in state,
\* sessionService.close has been invoked on that session.
C30_NoSessionAbandoned ==
    [][(session.id # 0 /\ session'.id # session.id) => closeInvoked]_vars

(***************************************************************************)
(* Specifications.                                                         *)
(***************************************************************************)
FramingInit ==
    /\ FramingStart(SeqsUpTo(Chars, MaxText))
    /\ ParserIdle
    /\ PageMounted

FramingNext == FeedChunk \/ Flush

SpecFraming == FramingInit /\ [][FramingNext]_vars

ParserInit ==
    /\ line \in ParseLines
    /\ result = Pending
    /\ aliasResult = Pending
    /\ FramingIdle
    /\ PageMounted

ParserNext == ParseStep \/ ParseRespelledStep

SpecParser == ParserInit /\ [][ParserNext]_vars


\* ---- the session controls: patient, create, port, connect, reset ----
SessionNext ==
    \/ SelectPatient
    \/ CreateClick
    \/ CreateSettle
    \/ \E p \in Ports : PickPort(p)
    \/ ConnectClick(MaxConnects)
    \/ \E k \in 1..MaxLinks : ConnectSettle(k)
    \/ ResetClick
    \/ \E c \in 1..MaxDisconnects : CloseStepSettle(c)
    \/ \E c \in 1..MaxDisconnects : DisconnectFinish(c)

SessionInit == FramingIdle /\ ParserIdle /\ PageMounted

SpecSession == SessionInit /\ [][SessionNext]_vars

\* ---- SerialIO.close alone: callers close an open link, once or twice ----
CloseInit == FramingIdle /\ ParserIdle /\ PageConnected

CloseNext ==
    \/ \E c \in 1..MaxCloseCalls : CloseCall(c)
    \/ \E c \in 1..MaxCloseCalls : CloseStepSettle(c)

SpecClose == CloseInit /\ [][CloseNext]_vars

\* ---- the link: ports, connects, disconnects and the loops they start ----
JunkLine == <<JUNK>>
NormalLine == Spelled(BaseReading, [f \in Fields |-> 1])

LinkInit == FramingIdle /\ ParserIdle /\ PageWithSession

LinkLine ==
    /\ \E k \in 1..MaxLinks, l \in {JunkLine, NormalLine} :
           /\ Len(arrivals) < MaxArrivals
           /\ LoopReadValue(k, l)
    /\ UNCHANGED qvars

LinkNext ==
    \/ \E p \in Ports : PickPort(p)
    \/ ConnectClick(MaxLinks)
    \/ \E k \in 1..MaxLinks : ConnectSettle(k)
    \/ DisconnectClick
    \/ \E c \in 1..MaxDisconnects : CloseStepSettle(c)
    \/ \E c \in 1..MaxDisconnects : DisconnectFinish(c)
    \/ LinkLine
    \/ \E k \in 1..MaxLinks : LoopReadDone(k)
    \/ \E k \in 1..MaxLinks : LoopReadError(k)
    \/ \E k \in 1..MaxLinks : LoopAppendSettle(k)

SpecLink == LinkInit /\ [][LinkNext]_vars

\* ---- the page: the operator, the backend, the device and the clock ----
PageLines == {JunkLine, NormalLine}

\* The port the operator of the page specification works with.
PagePorts == {0}

DeviceLine ==
    /\ \E k \in 1..MaxLinks, l \in PageLines :
           /\ Len(arrivals) < MaxArrivals
           /\ LoopReadValue(k, l)
    /\ UNCHANGED qvars

ClockTick ==
    /\ now < StartTime + MaxTicks * ThrottleMs
    /\ Tick(ThrottleMs)

Init == FramingIdle /\ ParserIdle /\ PageMounted

Next ==
    \/ SelectPatient
    \/ CreateClick
    \/ CreateSettle
    \/ \E p \in PagePorts : PickPort(p)
    \/ ConnectClick(MaxConnects)
    \/ \E k \in 1..MaxLinks : ConnectSettle(k)
    \/ DisconnectClick
    \/ ResetClick
    \/ \E c \in 1..MaxDisconnects : CloseStepSettle(c)
    \/ \E c \in 1..MaxDisconnects : DisconnectFinish(c)
    \/ StartClick
    \/ StartSettle
    \/ StopClick
    \/ StopWriteSettle
    \/ StopCloseSettle
    \/ DeviceLine
    \/ \E k \in 1..MaxLinks : LoopReadDone(k)
    \/ \E k \in 1..MaxLinks : LoopReadError(k)
    \/ \E k \in 1..MaxLinks : LoopAppendSettle(k)
    \/ ClockTick

Spec == Init /\ [][Next]_vars


\* ---- the ingestion loop on an open link: lines of every range, fine time ----
IngestReadings ==
    {BaseReading,
     [pulse |-> 300, oxygenSaturation |-> 40, temperatureC |-> 50, systolic |-> 20, diastolic |-> 10],
     [pulse |-> 10, oxygenSaturation |-> 120, temperatureC |-> 20, systolic |-> 300, diastolic |-> 250],
     [pulse |-> 20, oxygenSaturation |-> 100, temperatureC |-> 30, systolic |-> 260, diastolic |-> 30]}
IngestLines == {JunkLine} \cup {Spelled(v, [f \in Fields |-> 2]) : v \in IngestReadings}
IngestTicks == {499, 500}

IngestInit == FramingIdle /\ ParserIdle /\ PageConnected

IngestLine ==
    /\ \E k \in 1..MaxLinks, l \in IngestLines :
           /\ Len(arrivals) < MaxIngest
           /\ LoopReadValue(k, l)
    /\ UNCHANGED qvars

IngestTick ==
    \E step \in IngestTicks :
        /\ now + step <= StartTime + MaxElapsed
        /\ Tick(step)

IngestNext ==
    \/ IngestLine
    \/ \E k \in 1..MaxLinks : LoopAppendSettle(k)
    \/ IngestTick

SpecIngest == IngestInit /\ [][IngestNext]_vars

\* ---- the ring buffer: a device that counts, for more than 200 lines ----
RingLineAt(n) == Spelled([BaseReading EXCEPT !.pulse = 60 + (n % 7)], [f \in Fields |-> 1])

RingInit == FramingIdle /\ ParserIdle /\ PageConnected

RingLine ==
    /\ \E k \in 1..MaxLinks :
           /\ Len(arrivals) < MaxRing
           /\ LoopReadValue(k, RingLineAt(Len(arrivals)))
    /\ UNCHANGED qvars

RingNext ==
    \/ RingLine
    \/ \E k \in 1..MaxLinks : LoopAppendSettle(k)

SpecRing == RingInit /\ [][RingNext]_vars

\* ---- the reader's queue: lines wait while the loop is busy ----
BacklogInit == FramingIdle /\ ParserIdle /\ PageConnected

BacklogDeliver ==
    \E k \in 1..MaxLinks :
        /\ Len(backlog[k]) < MaxBacklog
        /\ Len(arrivals) + Len(backlog[k]) < MaxIngest
        /\ Deliver(k, RingLineAt(Len(arrivals) + Len(backlog[k])))

BacklogNext ==
    \/ BacklogDeliver
    \/ \E k \in 1..MaxLinks : LoopTake(k)
    \/ \E k \in 1..MaxLinks : LoopAppendSettle(k)
    \/ IngestTick

SpecBacklog == BacklogInit /\ [][BacklogNext]_vars

\* ---- the link, with every outstanding promise settling eventually ----
PromisesSettle ==
    /\ \A k \in 1..MaxLinks : WF_vars(ConnectSettle(k))
    /\ \A c \in 1..MaxDisconnects : WF_vars(CloseStepSettle(c))
    /\ \A c \in 1..MaxDisconnects : WF_vars(DisconnectFinish(c))
    /\ \A k \in 1..MaxLinks : WF_vars(LoopReadDone(k))
    /\ \A k \in 1..MaxLinks : WF_vars(LoopAppendSettle(k))

SpecCancel == LinkInit /\ [][LinkNext]_vars /\ PromisesSettle

\* ---- the loop and the lines it drops: empty values (readLoop takes any
\* line reader), text that is no JSON object, objects lacking a field ----
DiscardLines == {<<>>, JunkLine, <<LB, JUNK, RB>>, <<LB, Member("pulse", Num(70)), RB>>,
                 NormalLine}

DiscardInit == FramingIdle /\ ParserIdle /\ PageConnected

DiscardDeliver ==
    \E k \in 1..MaxLinks, l \in DiscardLines :
        /\ Len(backlog[k]) < MaxBacklog
        /\ Len(arrivals) + Len(backlog[k]) < MaxIngest
        /\ Deliver(k, l)

DiscardNext ==
    \/ DiscardDeliver
    \/ \E k \in 1..MaxLinks : LoopTake(k)
    \/ \E k \in 1..MaxLinks : LoopAppendSettle(k)
    \/ IngestTick

SpecDiscard == DiscardInit /\ [][DiscardNext]_vars

====
